---- MODULE Spec2Model ----
(***************************************************************************)
(* ChordMaster-AI: the audio engine (class AudioEngine) as a state machine. *)
(* Two variants of the engine are in the repository: the earlier one        *)
(* (src/unnamed/part_001, complete) and the one with the reverb bus         *)
(* (src/services/audioEngine.ts).  The variable engine says which one a     *)
(* behaviour runs.  Times are integers in milliseconds.                     *)
(***************************************************************************)
EXTENDS Integers, Sequences, FiniteSets, TLC

VARIABLES
  engine,        \* which variant of class AudioEngine this behaviour runs
  ctx,           \* this.ctx # null
  masterGain,    \* this.masterGain # null
  ctxState,      \* ctx.state: "none" before creation, "suspended", "running"
  resumePending, \* ctx.resume() was requested and its promise is not settled
  currentTime,   \* ctx.currentTime, in ms
  wall,          \* the event loop's clock (setTimeout), in ms
  activeNodes,   \* this.activeNodes: the registry, a sequence of entries
  timers,        \* the setTimeout callbacks created by playNotes
  calls,         \* number of startChord calls made so far (playNotes included)
  relCount,      \* history: relCount[c][k] = invocations of the release handle
                 \*   of the k-th entry pushed by call c
  last,          \* history: the most recent handler run and what it did
  bus,           \* the mix bus: gain values, impulse buffer, routing
  probe          \* argument and result of one evaluation of a pure function

vars == <<engine, ctx, masterGain, ctxState, resumePending, currentTime, wall,
          activeNodes, timers, calls, relCount, last, bus, probe>>

----------------------------------------------------------------------------
(* Bounds of the model *)
MaxCalls == 2
MaxNotes == 2
MaxTicks == 2
MaxMidi == 127
MaxIndex == 13
TickMs == 600
MaxTimer == 3
MaxRounds == 2
NumChords == 2

(* Program constants, in ms *)
AutoStopMs == 1200
ReleaseFadeMs == 300
StopDelayMs == 350
StaggerLegacyMs == 30
StaggerReverbMs == 40

(* Gains in thousandths, impulse response parameters in ms and tenths *)
MasterGainLegacy == 400
MasterGainReverb == 300
ReverbSendGain == 350
ImpulseDurationMs == 2000
ImpulseDecayTenths == 20

Engines == {"part_001", "audioEngine"}
Instruments == {"Piano", "Guitar", "Violin"}
Timbres == {"Grand", "Electric", "HonkyTonk"}

(* The chords the callers pass: prefixes of a C major arpeggio. *)
Scale == <<60, 64, 67, 72, 76>>
Chords == {SubSeq(Scale, 1, n) : n \in 0..MaxNotes}

----------------------------------------------------------------------------
(* The engine's fields and the log of one handler run, as one record. *)
Fields ==
  [ctx |-> ctx, masterGain |-> masterGain, ctxState |-> ctxState,
   resumePending |-> resumePending, activeNodes |-> activeNodes,
   relCount |-> relCount, bus |-> bus, events |-> <<>>]

Ev(e, c, k, t) == [e |-> e, call |-> c, k |-> k, t |-> t]

Log(s, ev) == [s EXCEPT !.events = Append(@, ev)]

(* The mix bus before init() has run. *)
NoBus == [inits |-> 0, masterGainValue |-> 0, reverbGainValue |-> 0,
          impulse |-> [made |-> 0, duration |-> 0, decay |-> 0],
          routes |-> {}]

(* The bus the body of init() builds; inits counts the runs of that body,   *)
(* impulse.made the runs of generateReverbImpulse (each fills a new buffer  *)
(* with Math.random() samples).                                             *)
newBus(eng, old) ==
  IF eng = "part_001"
  THEN [inits |-> old.inits + 1, masterGainValue |-> MasterGainLegacy,
        reverbGainValue |-> 0,
        impulse |-> old.impulse,
        routes |-> {<<"masterGain", "destination">>}]
  ELSE [inits |-> old.inits + 1, masterGainValue |-> MasterGainReverb,
        reverbGainValue |-> ReverbSendGain,
        impulse |-> [made |-> old.impulse.made + 1,
                     duration |-> ImpulseDurationMs,
                     decay |-> ImpulseDecayTenths],
        routes |-> {<<"masterGain", "destination">>,
                    <<"masterGain", "reverbGain">>,
                    <<"reverbGain", "reverbNode">>,
                    <<"reverbNode", "destination">>}]

(* Mutant: the context is created without its master gain. *)
initNoGain(eng, s, fresh) ==
  LET s1 == IF ~s.ctx
            THEN Log([s EXCEPT !.ctx = TRUE, !.ctxState = fresh],
                     Ev("init", 0, 0, 0))
            ELSE s
  IN IF s1.ctxState = "suspended"
     THEN Log([s1 EXCEPT !.resumePending = TRUE], Ev("resume", 0, 0, 0))
     ELSE s1

(* Mutant: resume is requested only by the call that creates the context. *)
initResumeOnce(eng, s, fresh) ==
  IF s.ctx THEN s
  ELSE LET s1 == Log([s EXCEPT !.ctx = TRUE, !.masterGain = TRUE,
                               !.ctxState = fresh, !.bus = newBus(eng, @)],
                     Ev("init", 0, 0, 0))
       IN IF s1.ctxState = "suspended"
          THEN Log([s1 EXCEPT !.resumePending = TRUE], Ev("resume", 0, 0, 0))
          ELSE s1

(* Mutant: the context and the bus are created anew on every call. *)
initAlways(eng, s, fresh) ==
  LET s1 == Log([s EXCEPT !.ctx = TRUE, !.masterGain = TRUE,
                          !.ctxState = fresh, !.bus = newBus(eng, @)],
                Ev("init", 0, 0, 0))
  IN IF s1.ctxState = "suspended"
     THEN Log([s1 EXCEPT !.resumePending = TRUE], Ev("resume", 0, 0, 0))
     ELSE s1

(* init(): create the context and the bus once, resume when suspended.     *)
(* fresh is the state a newly created AudioContext starts in.               *)
init(eng, s, fresh) ==
  LET s1 == IF ~s.ctx
            THEN Log([s EXCEPT !.ctx = TRUE, !.masterGain = TRUE,
                               !.ctxState = fresh, !.bus = newBus(eng, @)],
                     Ev("init", 0, 0, 0))
            ELSE s
  IN IF s1.ctxState = "suspended"
     THEN Log([s1 EXCEPT !.resumePending = TRUE], Ev("resume", 0, 0, 0))
     ELSE s1

(* Mutant: both variants stagger by 0.05 s. *)
StaggerMsWide(eng) == 50

StaggerMs(eng) == IF eng = "part_001" THEN StaggerLegacyMs ELSE StaggerReverbMs

(* Mutant: the index is counted from 1. *)
staggerFromOne(eng, instrument, index) ==
  IF instrument = "Piano" THEN 0 ELSE (index + 1) * StaggerMs(eng)

(* const stagger = instrument === Piano ? 0 : index * 0.03 (0.04);          *)
(* index is the 0-based forEach index.                                      *)
stagger(eng, instrument, index) ==
  IF instrument = "Piano" THEN 0 ELSE index * StaggerMs(eng)

(* Frequencies are binary floating-point values m * 2^e, m in units of      *)
(* 1e-4 Hz with one unit as the last place of the mantissa.                 *)
(* Pow2Frac[r + 1] is 2^(r/12) for r in 0..11, to four decimals.            *)
Pow2Frac == <<10000, 10595, 11225, 11892, 12599, 13348,
              14142, 14983, 15874, 16818, 17818, 18877>>

(* The results Math.pow(2, (midi - 69) / 12) can round to, in units of the  *)
(* last place: the quotient is rounded before Math.pow sees it and Math.pow *)
(* is an approximation, exact for a whole exponent.                         *)
PowErr(midi) == IF (midi - 69) % 12 = 0 THEN {0} ELSE {-1, 0, 1}

(* Mutant: the reference note is 68. *)
midiToFreqFlat(midi, err) ==
  LET d == midi - 68
  IN [m |-> 440 * Pow2Frac[(d % 12) + 1] + err, e |-> d \div 12]

(* 440 * Math.pow(2, (midi - 69) / 12), the exponent split into its whole   *)
(* octaves and its twelfths; err is the rounding of this evaluation.        *)
midiToFreq(midi, err) ==
  LET d == midi - 69
  IN [m |-> 440 * Pow2Frac[(d % 12) + 1] + err, e |-> d \div 12]

(* One oscillator of a recipe: detune is a range of cents, rate (Hz) and    *)
(* depth (thousandths) are those of an LFO.                                 *)
Osc(role, type, lo, hi, rate, depth) ==
  [role |-> role, type |-> type, detune |-> [lo |-> lo, hi |-> hi],
   rate |-> rate, depth |-> depth]

(* One automation call: op at the offset at (ms) from startTime. *)
Pt(op, value, at) == [op |-> op, value |-> value, at |-> at]

NoFilter == [type |-> "none", track |-> "none", q |-> 0, points |-> <<>>]

(* The switch of part_001: one oscillator per note, key-tracked filter      *)
(* values in tenths of the fundamental, gains in thousandths.               *)
recipeLegacy(instrument, timbre) ==
  IF instrument = "Piano" THEN
    IF timbre = "Electric" THEN
      [oscs |-> <<Osc("audio", "sine", 0, 0, 0, 0)>>,
       filter |-> NoFilter,
       env |-> <<Pt("set", 0, 0), Pt("linear", 600, 20), Pt("exp", 300, 1500)>>]
    ELSE IF timbre = "HonkyTonk" THEN
      [oscs |-> <<Osc("audio", "sawtooth", -5, 5, 0, 0)>>,
       filter |-> [type |-> "lowpass", track |-> "key", q |-> 0,
                   points |-> <<Pt("value", 30, 0)>>],
       env |-> <<Pt("set", 0, 0), Pt("linear", 500, 10), Pt("exp", 10, 600)>>]
    ELSE
      [oscs |-> <<Osc("audio", "triangle", 0, 0, 0, 0)>>,
       filter |-> [type |-> "lowpass", track |-> "key", q |-> 0,
                   points |-> <<Pt("set", 10, 0), Pt("exp", 60, 20),
                                Pt("exp", 20, 500)>>],
       env |-> <<Pt("set", 0, 0), Pt("linear", 800, 15), Pt("exp", 100, 3000)>>]
  ELSE IF instrument = "Guitar" THEN
    [oscs |-> <<Osc("audio", "sawtooth", 0, 0, 0, 0)>>,
     filter |-> [type |-> "lowpass", track |-> "fixed", q |-> 0,
                 points |-> <<Pt("set", 3000, 0), Pt("exp", 500, 1000)>>],
     env |-> <<Pt("set", 0, 0), Pt("linear", 800, 50), Pt("exp", 300, 2000)>>]
  ELSE
    [oscs |-> <<Osc("audio", "sawtooth", 0, 0, 0, 0),
                Osc("vibrato", "sine", 0, 0, 6, 4000)>>,
     filter |-> NoFilter,
     env |-> <<Pt("set", 0, 0), Pt("linear", 700, 500)>>]

(* The if/else chain of audioEngine.ts; oscs lists noteOscillators in the   *)
(* order of the push. An LFO keeps the default oscillator type.             *)
recipeReverb(instrument, timbre) ==
  IF instrument = "Piano" THEN
    IF timbre = "Electric" THEN
      [oscs |-> <<Osc("audio", "sine", 0, 0, 0, 0),
                  Osc("audio", "triangle", 0, 0, 0, 0),
                  Osc("tremolo", "default", 0, 0, 5, 150)>>,
       filter |-> NoFilter,
       env |-> <<Pt("set", 0, 0), Pt("linear", 600, 50), Pt("exp", 400, 1000)>>]
    ELSE IF timbre = "HonkyTonk" THEN
      [oscs |-> <<Osc("audio", "sawtooth", 0, 0, 0, 0),
                  Osc("audio", "sawtooth", 15, 15, 0, 0)>>,
       filter |-> [type |-> "lowpass", track |-> "key", q |-> 0,
                   points |-> <<Pt("value", 30, 0)>>],
       env |-> <<Pt("set", 0, 0), Pt("linear", 500, 20), Pt("exp", 10, 800)>>]
    ELSE
      [oscs |-> <<Osc("audio", "triangle", 0, 0, 0, 0),
                  Osc("audio", "triangle", 6, 6, 0, 0),
                  Osc("audio", "sine", 0, 0, 0, 0)>>,
       filter |-> [type |-> "lowpass", track |-> "key", q |-> 0,
                   points |-> <<Pt("set", 60, 0), Pt("exp", 15, 500)>>],
       env |-> <<Pt("set", 0, 0), Pt("linear", 700, 20), Pt("exp", 400, 300),
                 Pt("exp", 10, 4000)>>]
  ELSE IF instrument = "Guitar" THEN
    [oscs |-> <<Osc("audio", "sawtooth", 0, 0, 0, 0)>>,
     filter |-> [type |-> "lowpass", track |-> "fixed", q |-> 0,
                 points |-> <<Pt("set", 3000, 0), Pt("exp", 500, 500)>>],
     env |-> <<Pt("set", 0, 0), Pt("linear", 600, 40), Pt("exp", 100, 2000)>>]
  ELSE
    [oscs |-> <<Osc("audio", "sawtooth", 0, 0, 0, 0),
                Osc("vibrato", "default", 0, 0, 6, 5000)>>,
     filter |-> [type |-> "bandpass", track |-> "fixed", q |-> 5,
                 points |-> <<Pt("value", 1500, 0)>>],
     env |-> <<Pt("set", 0, 0), Pt("linear", 600, 400)>>]

(* Mutant: the Guitar branch reads the timbre as well. *)
recipeTimbred(eng, instrument, timbre) ==
  IF instrument = "Guitar" /\ timbre = "Electric"
  THEN IF eng = "part_001" THEN recipeLegacy("Piano", timbre)
                           ELSE recipeReverb("Piano", timbre)
  ELSE IF eng = "part_001" THEN recipeLegacy(instrument, timbre)
                           ELSE recipeReverb(instrument, timbre)

(* Mutant: an unknown timbre falls through to the HonkyTonk recipe. *)
recipeHonkyDefault(eng, instrument, timbre) ==
  LET t == IF timbre \in {"Grand", "Electric"} THEN timbre ELSE "HonkyTonk"
  IN IF eng = "part_001" THEN recipeLegacy(instrument, t)
                         ELSE recipeReverb(instrument, t)

recipe(eng, instrument, timbre) ==
  IF eng = "part_001" THEN recipeLegacy(instrument, timbre)
                      ELSE recipeReverb(instrument, timbre)

(* The oscillators of a recipe (indexes into its oscs) in the order of      *)
(* their start() calls.                                                     *)
startOrder(eng, instrument, timbre) ==
  IF instrument = "Violin" THEN <<2, 1>>
  ELSE IF eng = "part_001" \/ instrument = "Guitar" THEN <<1>>
  ELSE IF timbre = "Electric" THEN <<3, 1, 2>>
  ELSE [i \in 1..Len(recipe(eng, instrument, timbre).oscs) |-> i]

(* Mutant: the Violin branch leaves its LFO out of the list. *)
noteOscillatorsNoLfo(eng, instrument, timbre) ==
  IF eng = "part_001" \/ instrument \in {"Guitar", "Violin"} THEN <<1>>
  ELSE [i \in 1..Len(recipe(eng, instrument, timbre).oscs) |-> i]

(* The oscillators the closures of the note's entry hold: noteOscillators   *)
(* in the order of the push in audioEngine.ts, osc alone in part_001.       *)
noteOscillators(eng, instrument, timbre) ==
  IF eng = "part_001" \/ instrument = "Guitar" THEN <<1>>
  ELSE IF instrument = "Violin" THEN <<1, 2>>
  ELSE [i \in 1..Len(recipe(eng, instrument, timbre).oscs) |-> i]

(* Mutant: the envelope is scheduled from the time of the call. *)
AtCall(points, startTime) ==
  [i \in 1..Len(points) |->
     [points[i] EXCEPT !.at = startTime - (startTime % 100) + @]]

(* The automation calls of points, at absolute times. *)
At(points, startTime) ==
  [i \in 1..Len(points) |-> [points[i] EXCEPT !.at = startTime + @]]

(* What the body of midiNotes.forEach builds for one note: the oscillators  *)
(* at freq = midiToFreq(note), each started by start(startTime), the filter *)
(* and the envelope of the voice gain scheduled from startTime, the voice   *)
(* gain connected to masterGain. freqOf names the note freq is computed     *)
(* from.                                                                    *)
voiceGraph(eng, note, index, instrument, timbre, now) ==
  LET r == recipe(eng, instrument, timbre)
      startTime == now + stagger(eng, instrument, index)
      order == startOrder(eng, instrument, timbre)
  IN [freqOf |-> note, startTime |-> startTime, oscs |-> r.oscs,
      started |-> [i \in 1..Len(order) |->
                     [osc |-> order[i], at |-> startTime]],
      listed |-> noteOscillators(eng, instrument, timbre),
      filter |-> [r.filter EXCEPT !.points = At(@, startTime)],
      env |-> At(r.env, startTime), out |-> "masterGain"]

(* The oscillators of voice v its note's entry holds. *)
Held(v) == [i \in 1..Len(v.listed) |-> v.oscs[v.listed[i]]]

(* osc.stop(t) for each oscillator the release closure of node holds. *)
RECURSIVE stopOscs(_, _, _, _)
stopOscs(s, node, i, t) ==
  IF i > Len(node.oscs) THEN s
  ELSE stopOscs(Log(s, Ev("oscStop", node.call, node.k, t)), node, i + 1, t)

(* The stop closure of a registry entry: stop: (t) => osc.stop(t). *)
stop(s, node, t) ==
  stopOscs(Log(s, Ev("stop", node.call, node.k, t)), node, 1, t)

(* Mutant: the oscillators are stopped when the fade-out ends, before the   *)
(* gain is pinned.                                                          *)
releaseHasty(s, node, t) ==
  LET s1 == Log([s EXCEPT !.relCount[node.call][node.k] = @ + 1],
                Ev("release", node.call, node.k, t))
  IN IF node.kind = "lfo"
     THEN s1
     ELSE Log(Log(Log(stopOscs(s1, node, 1, t + ReleaseFadeMs),
            Ev("cancelScheduledValues", node.call, node.k, t)),
            Ev("setValueAtTime", node.call, node.k, t)),
            Ev("rampToSilence", node.call, node.k, t + ReleaseFadeMs))

(* The release closure of a registry entry, invoked at time t. *)
release(s, node, t) ==
  LET s1 == Log([s EXCEPT !.relCount[node.call][node.k] = @ + 1],
                Ev("release", node.call, node.k, t))
  IN IF node.kind = "lfo"
     THEN s1   \* release: () => {}
     ELSE stopOscs(Log(Log(Log(s1,
            Ev("cancelScheduledValues", node.call, node.k, t)),
            Ev("setValueAtTime", node.call, node.k, t)),
            Ev("rampToSilence", node.call, node.k, t + ReleaseFadeMs)),
            node, 1, t + StopDelayMs)

(* Mutant: the loop invokes every release handle twice. *)
RECURSIVE releaseEachTwice(_, _, _, _)
releaseEachTwice(s, nodes, i, t) ==
  IF i > Len(nodes) THEN s
  ELSE releaseEachTwice(release(release(s, nodes[i], t), nodes[i], t),
                        nodes, i + 1, t)

(* Mutant: the loop stops one entry short. *)
RECURSIVE releaseEachShort(_, _, _, _)
releaseEachShort(s, nodes, i, t) ==
  IF i >= Len(nodes) THEN s
  ELSE releaseEachShort(release(s, nodes[i], t), nodes, i + 1, t)

(* activeNodes.forEach(node => node.release(now)) *)
RECURSIVE releaseEach(_, _, _, _)
releaseEach(s, nodes, i, t) ==
  IF i > Len(nodes) THEN s
  ELSE releaseEach(release(s, nodes[i], t), nodes, i + 1, t)

(* Mutant: the last entry is released but stays in the registry. *)
stopChordKeepLast(s, now) ==
  IF ~s.ctx \/ Len(s.activeNodes) = 0 THEN s
  ELSE Log([releaseEach(s, s.activeNodes, 1, now)
              EXCEPT !.activeNodes = SubSeq(@, Len(@), Len(@))],
           Ev("clear", 0, 0, now))

(* Mutant: stopChord creates the context when there is none. *)
stopChordInit(s, now) ==
  LET s0 == IF ~s.ctx
            THEN Log([s EXCEPT !.ctx = TRUE, !.masterGain = TRUE,
                               !.ctxState = "running",
                               !.bus = newBus("part_001", @)],
                     Ev("init", 0, 0, 0))
            ELSE s
  IN IF Len(s0.activeNodes) = 0 THEN s0
     ELSE Log([releaseEach(s0, s0.activeNodes, 1, now)
                 EXCEPT !.activeNodes = <<>>],
              Ev("clear", 0, 0, now))

(* node.stop(t) for each of nodes. *)
RECURSIVE stopEach(_, _, _, _)
stopEach(s, nodes, i, t) ==
  IF i > Len(nodes) THEN s
  ELSE stopEach(stop(s, nodes[i], t), nodes, i + 1, t)

(* Mutant: the entries are hard-stopped through their stop handles. *)
stopChordHard(s, now) ==
  IF ~s.ctx \/ Len(s.activeNodes) = 0 THEN s
  ELSE Log([stopEach(s, s.activeNodes, 1, now) EXCEPT !.activeNodes = <<>>],
           Ev("clear", 0, 0, now))

(* Mutant: the registry is cleared before the entries are released. *)
stopChordDropFirst(s, now) ==
  IF ~s.ctx \/ Len(s.activeNodes) = 0 THEN s
  ELSE releaseEach(Log([s EXCEPT !.activeNodes = <<>>], Ev("clear", 0, 0, now)),
                   s.activeNodes, 1, now)

(* Mutant: the registry is not cleared after the releases. *)
stopChordKeep(s, now) ==
  IF ~s.ctx \/ Len(s.activeNodes) = 0 THEN s
  ELSE releaseEach(s, s.activeNodes, 1, now)

(* stopChord(), with now the value of ctx.currentTime. *)
stopChord(s, now) ==
  IF ~s.ctx \/ Len(s.activeNodes) = 0 THEN s
  ELSE Log([releaseEach(s, s.activeNodes, 1, now) EXCEPT !.activeNodes = <<>>],
           Ev("clear", 0, 0, now))

(* The roles of the oscillators in oscs, in order. *)
Roles(oscs) == [i \in 1..Len(oscs) |-> oscs[i].role]

(* this.activeNodes.push({stop, release}); oscs are the started oscillators *)
(* the two closures of the entry hold.                                      *)
push(s, c, index, note, kind, oscs, startTime) ==
  LET k == Len(s.relCount[c]) + 1
      node == [call |-> c, k |-> k, idx |-> index, note |-> note,
               kind |-> kind, oscs |-> oscs, startTime |-> startTime]
  IN Log([s EXCEPT !.activeNodes = Append(@, node),
                   !.relCount[c] = Append(@, 0)],
         Ev("register", c, k, startTime))

(* The body of midiNotes.forEach in part_001: the Violin branch pushes an   *)
(* entry for the LFO before the entry of the note.                          *)
buildLegacy(s, c, note, index, instrument, timbre, now) ==
  LET v == voiceGraph("part_001", note, index, instrument, timbre, now)
      s1 == Log(s, Ev("create", c, index, v.startTime))
      s2 == IF instrument = "Violin"
            THEN push(s1, c, index, note, "lfo",
                      Roles(SubSeq(v.oscs, 2, 2)), v.startTime)
            ELSE s1
      s3 == Log(s2, Ev("connectMaster", c, index, v.startTime))
  IN push(s3, c, index, note, "note", Roles(Held(v)), v.startTime)

(* The body of midiNotes.forEach in audioEngine.ts: one voice gain and the  *)
(* recipe's oscillators, collected in noteOscillators.                      *)
buildReverb(s, c, note, index, instrument, timbre, now) ==
  LET v == voiceGraph("audioEngine", note, index, instrument, timbre, now)
  IN Log(Log(s, Ev("create", c, index, v.startTime)),
         Ev("connectMaster", c, index, v.startTime))

(* The end of that body, where the handlers are registered: one entry per   *)
(* note, whose release fades the voice gain and stops all noteOscillators.  *)
registerReverb(s, c, note, index, instrument, timbre, now) ==
  LET v == voiceGraph("audioEngine", note, index, instrument, timbre, now)
  IN push(s, c, index, note, "note", Roles(Held(v)), v.startTime)

buildNote(eng, s, c, note, index, instrument, timbre, now) ==
  IF eng = "part_001"
  THEN buildLegacy(s, c, note, index, instrument, timbre, now)
  ELSE registerReverb(buildReverb(s, c, note, index, instrument, timbre, now),
                      c, note, index, instrument, timbre, now)

(* Mutant: the notes are visited from the last to the first. *)
RECURSIVE forEachNoteRev(_, _, _, _, _, _, _, _)
forEachNoteRev(eng, s, c, midiNotes, i, instrument, timbre, now) ==
  IF i > Len(midiNotes) THEN s
  ELSE buildNote(eng,
         forEachNoteRev(eng, s, c, midiNotes, i + 1, instrument, timbre, now),
         c, midiNotes[i], i - 1, instrument, timbre, now)

(* midiNotes.forEach((note, index) => ...) *)
RECURSIVE forEachNote(_, _, _, _, _, _, _, _)
forEachNote(eng, s, c, midiNotes, i, instrument, timbre, now) ==
  IF i > Len(midiNotes) THEN s
  ELSE forEachNote(eng,
         buildNote(eng, s, c, midiNotes[i], i - 1, instrument, timbre, now),
         c, midiNotes, i + 1, instrument, timbre, now)

(* Mutant: the master gain is lowered by the number of notes of the chord. *)
startChordAutoGain(eng, s, c, midiNotes, instrument, timbre, now, fresh) ==
  LET s1 == init(eng, s, fresh)
      s2 == stopChord(s1, now)
      s3 == [s2 EXCEPT !.relCount = Append(@, <<>>),
                       !.bus.masterGainValue = @ - 50 * Len(midiNotes)]
  IN IF ~s3.ctx \/ ~s3.masterGain THEN s3
     ELSE forEachNote(eng, s3, c, midiNotes, 1, instrument, timbre, now)

(* Mutant: the previous chord is released after the new one is built. *)
startChordLateDrain(eng, s, c, midiNotes, instrument, timbre, now, fresh) ==
  LET s1 == init(eng, s, fresh)
      s3 == [s1 EXCEPT !.relCount = Append(@, <<>>)]
      s4 == forEachNote(eng, s3, c, midiNotes, 1, instrument, timbre, now)
      s5 == releaseEach(s4, s1.activeNodes, 1, now)
  IN [s5 EXCEPT !.activeNodes =
        SubSeq(@, Len(s1.activeNodes) + 1, Len(@))]

(* Mutant: the previous chord is not stopped first. *)
startChordNoDrain(eng, s, c, midiNotes, instrument, timbre, now, fresh) ==
  LET s1 == init(eng, s, fresh)
      s3 == [s1 EXCEPT !.relCount = Append(@, <<>>)]
  IN IF ~s3.ctx \/ ~s3.masterGain THEN s3
     ELSE forEachNote(eng, s3, c, midiNotes, 1, instrument, timbre, now)

(* startChord(midiNotes, instrument, timbre); c is the number of this call. *)
startChord(eng, s, c, midiNotes, instrument, timbre, now, fresh) ==
  LET s1 == init(eng, s, fresh)
      s2 == stopChord(s1, now)
      s3 == [s2 EXCEPT !.relCount = Append(@, <<>>)]
  IN IF ~s3.ctx \/ ~s3.masterGain THEN s3
     ELSE forEachNote(eng, s3, c, midiNotes, 1, instrument, timbre, now)

----------------------------------------------------------------------------
(* No pure function is being evaluated. *)
NoProbe == [fn |-> "none"]

NoRun == [op |-> "none", call |-> 0, notes |-> <<>>, inst |-> "Piano",
          timbre |-> "Grand", now |-> 0, pre |-> <<>>, events |-> <<>>]

(* The engine as constructed: no context, no bus, an empty registry. *)
Idle ==
  /\ ctx = FALSE
  /\ masterGain = FALSE
  /\ ctxState = "none"
  /\ resumePending = FALSE
  /\ currentTime = 0
  /\ wall = 0
  /\ activeNodes = <<>>
  /\ timers = <<>>
  /\ calls = 0
  /\ relCount = <<>>
  /\ last = NoRun
  /\ bus = NoBus

Init ==
  /\ engine \in Engines
  /\ Idle
  /\ probe = NoProbe

(* Write the engine's fields back. *)
Commit(s) ==
  /\ ctx' = s.ctx
  /\ masterGain' = s.masterGain
  /\ ctxState' = s.ctxState
  /\ resumePending' = s.resumePending
  /\ activeNodes' = s.activeNodes
  /\ relCount' = s.relCount
  /\ bus' = s.bus

StartChord(midiNotes, instrument, timbre, fresh) ==
  /\ calls < MaxCalls
  /\ LET s == startChord(engine, Fields, calls + 1, midiNotes, instrument,
                         timbre, currentTime, fresh)
     IN /\ Commit(s)
        /\ last' = [op |-> "startChord", call |-> calls + 1,
                    notes |-> midiNotes, inst |-> instrument,
                    timbre |-> timbre, now |-> currentTime,
                    pre |-> activeNodes, events |-> s.events]
  /\ calls' = calls + 1
  /\ UNCHANGED <<probe, engine, currentTime, wall, timers>>

(* Mutant: a new playNotes clears the timers that are still pending. *)
PlayNotesCancel(midiNotes, instrument, timbre, fresh) ==
  /\ calls < MaxCalls
  /\ LET s == startChord(engine, Fields, calls + 1, midiNotes, instrument,
                         timbre, currentTime, fresh)
     IN /\ Commit(s)
        /\ last' = [op |-> "playNotes", call |-> calls + 1,
                    notes |-> midiNotes, inst |-> instrument,
                    timbre |-> timbre, now |-> currentTime,
                    pre |-> activeNodes, events |-> s.events]
  /\ timers' = Append(SelectSeq(timers, LAMBDA t : t.fires > 0),
                      [call |-> calls + 1, set |-> wall,
                       due |-> wall + AutoStopMs, fires |-> 0])
  /\ calls' = calls + 1
  /\ UNCHANGED <<probe, engine, currentTime, wall>>

(* playNotes(midiNotes, instrument, timbre) *)
PlayNotes(midiNotes, instrument, timbre, fresh) ==
  /\ calls < MaxCalls
  /\ LET s == startChord(engine, Fields, calls + 1, midiNotes, instrument,
                         timbre, currentTime, fresh)
     IN /\ Commit(s)
        /\ last' = [op |-> "playNotes", call |-> calls + 1,
                    notes |-> midiNotes, inst |-> instrument,
                    timbre |-> timbre, now |-> currentTime,
                    pre |-> activeNodes, events |-> s.events]
  /\ timers' = Append(timers, [call |-> calls + 1, set |-> wall,
                               due |-> wall + AutoStopMs, fires |-> 0])
  /\ calls' = calls + 1
  /\ UNCHANGED <<probe, engine, currentTime, wall>>

StopChord ==
  /\ LET s == stopChord(Fields, currentTime)
     IN /\ Commit(s)
        /\ last' = [NoRun EXCEPT !.op = "stopChord", !.now = currentTime,
                                 !.pre = activeNodes, !.events = s.events]
  /\ UNCHANGED <<probe, engine, currentTime, wall, timers, calls>>

(* Mutant: the callback does nothing. *)
TimerFireIdle(i) ==
  /\ i \in 1..Len(timers)
  /\ timers[i].fires = 0
  /\ \A j \in 1..(i - 1) : timers[j].fires > 0
  /\ timers[i].due <= wall
  /\ last' = [NoRun EXCEPT !.op = "timer", !.call = timers[i].call,
                           !.now = currentTime, !.pre = activeNodes]
  /\ timers' = [timers EXCEPT ![i].fires = @ + 1]
  /\ UNCHANGED <<probe, bus, engine, ctx, masterGain, ctxState, resumePending,
                 currentTime, wall, activeNodes, calls, relCount>>

(* Mutant: the callback stops only the chord of its own playNotes call. *)
TimerFireScoped(i) ==
  /\ i \in 1..Len(timers)
  /\ timers[i].fires = 0
  /\ \A j \in 1..(i - 1) : timers[j].fires > 0
  /\ timers[i].due <= wall
  /\ LET own == \A n \in 1..Len(activeNodes) :
                  activeNodes[n].call = timers[i].call
         s == IF own THEN stopChord(Fields, currentTime) ELSE Fields
     IN /\ Commit(s)
        /\ last' = [NoRun EXCEPT !.op = "timer", !.call = timers[i].call,
                                 !.now = currentTime, !.pre = activeNodes,
                                 !.events = s.events]
  /\ timers' = [timers EXCEPT ![i].fires = @ + 1]
  /\ UNCHANGED <<probe, engine, currentTime, wall, calls>>

(* The setTimeout callback of playNotes: () => { this.stopChord(); }.       *)
(* Timers of equal delay run in the order they were set.                    *)
TimerFire(i) ==
  /\ i \in 1..Len(timers)
  /\ timers[i].fires = 0
  /\ \A j \in 1..(i - 1) : timers[j].fires > 0
  /\ timers[i].due <= wall
  /\ LET s == stopChord(Fields, currentTime)
     IN /\ Commit(s)
        /\ last' = [NoRun EXCEPT !.op = "timer", !.call = timers[i].call,
                                 !.now = currentTime, !.pre = activeNodes,
                                 !.events = s.events]
  /\ timers' = [timers EXCEPT ![i].fires = @ + 1]
  /\ UNCHANGED <<probe, engine, currentTime, wall, calls>>

(* Time passes, up to the model's horizon and for as long as a timer is    *)
(* still to come due; the audio clock runs only while the context is       *)
(* running.                                                                 *)
Tick ==
  /\ \/ wall + TickMs <= MaxTicks * TickMs
     \/ \E i \in 1..Len(timers) : timers[i].due > wall
  /\ wall' = wall + TickMs
  /\ currentTime' = IF ctxState = "running" THEN currentTime + TickMs
                    ELSE currentTime
  /\ UNCHANGED <<probe, bus, engine, ctx, masterGain, ctxState, resumePending,
                 activeNodes, timers, calls, relCount, last>>

(* The promise of ctx.resume() settles. *)
ResumeDone ==
  /\ resumePending
  /\ resumePending' = FALSE
  /\ ctxState' = "running"
  /\ UNCHANGED <<probe, bus, engine, ctx, masterGain, currentTime, wall,
                 activeNodes, timers, calls, relCount, last>>

(* The state a context created now would start in: suspended before the   *)
(* page has a user activation, running after; an existing one keeps its own.*)
FreshStates == IF ctx THEN {ctxState} ELSE {"suspended", "running"}

Next ==
  \/ \E n \in Chords, i \in Instruments, t \in Timbres, f \in FreshStates :
        StartChord(n, i, t, f)
  \/ \E n \in Chords, i \in Instruments, t \in Timbres, f \in FreshStates :
        PlayNotes(n, i, t, f)
  \/ StopChord
  \/ \E i \in 1..Len(timers) : TimerFire(i)
  \/ Tick
  \/ ResumeDone

Spec == Init /\ [][Next]_vars

(* The event loop runs a timer callback once it is due, and time passes. *)
TimerAction == \E i \in 1..Len(timers) : TimerFire(i)
FairSpec == Spec /\ WF_vars(Tick) /\ WF_vars(TimerAction)

----------------------------------------------------------------------------
(* The pure functions of the engine, each applied to arguments drawn from   *)
(* bounded sets; the engine itself stays as constructed.                    *)
engineVars == <<engine, ctx, masterGain, ctxState, resumePending, currentTime,
                wall, activeNodes, timers, calls, relCount, last, bus>>

(* midiToFreq at lo, lo + 1 and lo + 12, in this order. *)
FreqArgs(lo) == <<lo, lo + 1, lo + 12>>

FreqInit ==
  /\ engine \in Engines
  /\ Idle
  /\ probe \in {[fn |-> "midiToFreq", lo |-> n, out |-> <<>>] :
                   n \in 0..MaxMidi}

MidiToFreq ==
  /\ probe.fn = "midiToFreq"
  /\ Len(probe.out) < Len(FreqArgs(probe.lo))
  /\ LET midi == FreqArgs(probe.lo)[Len(probe.out) + 1]
     IN \E err \in PowErr(midi) :
          probe' = [probe EXCEPT !.out = Append(@, midiToFreq(midi, err))]
  /\ UNCHANGED engineVars

FreqNext == MidiToFreq

FreqSpec == FreqInit /\ [][FreqNext]_vars

(* The timbre values a caller can pass: those of PianoTimbre and one value  *)
(* outside the type.                                                        *)
ProbeTimbres == <<"Grand", "Electric", "HonkyTonk", "Other">>

BuildInit ==
  /\ engine \in Engines
  /\ Idle
  /\ probe \in {[fn |-> "voiceGraph", note |-> Scale[n], index |-> i,
                  instrument |-> ins, now |-> k * TickMs, graphs |-> <<>>,
                  stops |-> <<>>] :
                   n \in 1..MaxNotes, i \in 0..(MaxNotes - 1),
                   ins \in Instruments, k \in 0..MaxTicks}

(* The stops scheduled when the stop handle of every entry the forEach body *)
(* pushes for one note is invoked at t.                                     *)
stopsOfNote(eng, note, index, instrument, timbre, now, t) ==
  LET s0 == [Fields EXCEPT !.ctx = TRUE, !.masterGain = TRUE,
                           !.relCount = <<<<>>>>]
      s1 == buildNote(eng, s0, 1, note, index, instrument, timbre, now)
      s2 == stopEach([s1 EXCEPT !.events = <<>>], s1.activeNodes, 1, t)
  IN SelectSeq(s2.events, LAMBDA e : e.e = "oscStop")

(* The voice of one note, built once for each timbre value. *)
BuildVoice ==
  /\ probe.fn = "voiceGraph"
  /\ Len(probe.graphs) < Len(ProbeTimbres)
  /\ LET timbre == ProbeTimbres[Len(probe.graphs) + 1]
     IN probe' = [probe EXCEPT
          !.graphs = Append(@, voiceGraph(engine, probe.note, probe.index,
                                          probe.instrument, timbre,
                                          probe.now)),
          !.stops = Append(@, stopsOfNote(engine, probe.note, probe.index,
                                          probe.instrument, timbre,
                                          probe.now, probe.now + TickMs))]
  /\ UNCHANGED engineVars

BuildNext == BuildVoice

BuildSpec == BuildInit /\ [][BuildNext]_vars

(* The note at one index of a chord is built at now and the registry is     *)
(* drained delay later: its start time and the stops the drain schedules.   *)
StaggerInit ==
  /\ engine \in Engines
  /\ Idle
  /\ probe \in {[fn |-> "stagger", index |-> i, instrument |-> ins,
                  now |-> k * TickMs, delay |-> d, done |-> FALSE,
                  start |-> 0, stops |-> <<>>] :
                   i \in 0..MaxIndex, ins \in Instruments,
                   k \in 0..MaxTicks, d \in {0, TickMs}}

BuildAndStop ==
  /\ probe.fn = "stagger"
  /\ ~probe.done
  /\ LET s0 == [Fields EXCEPT !.ctx = TRUE, !.masterGain = TRUE,
                              !.relCount = <<<<>>>>]
         s1 == buildNote(engine, s0, 1, Scale[1], probe.index,
                         probe.instrument, "Grand", probe.now)
         s2 == stopChord([s1 EXCEPT !.events = <<>>],
                         probe.now + probe.delay)
         stops == SelectSeq(s2.events, LAMBDA e : e.e = "oscStop")
     IN probe' = [probe EXCEPT
          !.done = TRUE,
          !.start = s1.activeNodes[Len(s1.activeNodes)].startTime,
          !.stops = [j \in 1..Len(stops) |-> stops[j].t]]
  /\ UNCHANGED engineVars

StaggerNext == BuildAndStop

StaggerSpec == StaggerInit /\ [][StaggerNext]_vars

----------------------------------------------------------------------------
(* Practice mode of App.tsx: the component's state, the countdown interval  *)
(* the browser holds for it and the calls it makes to the engine, kept in   *)
(* probe while the engine itself stays as constructed.  Every handler runs  *)
(* to its commit, and the effects of that commit run with it.               *)
DefaultTimer == 10
NoChord == 0
ALL_CHORDS_FLAT == 1..NumChords
SliderValues == 1..MaxTimer

App0 ==
  [fn |-> "practice",
   practice |-> [isActive |-> FALSE, targetChord |-> NoChord,
                 revealed |-> FALSE, timer |-> DefaultTimer,
                 timerSetting |-> DefaultTimer, hasMadeMistake |-> FALSE],
   isScoreMode |-> FALSE,
   currentScore |-> [correct |-> 0, wrong |-> 0],
   feedbackStatus |-> "idle",
   currentChord |-> NoChord,
   history |-> 0,
   timerRef |-> 0,
   intervals |-> {},
   feedbackTimer |-> FALSE,
   audio |-> <<>>,
   op |-> "mount", arg |-> NoChord, pre |-> <<>>,
   rounds |-> 0, base |-> 0, ticks |-> 0, effectRuns |-> 0]

(* audioEngine.<fn>(getChordNotes(chord), ...) *)
engineCall(a, fn, chord) ==
  [a EXCEPT !.audio = Append(@, [fn |-> fn, chord |-> chord])]

(* if (timerRef.current) clearInterval(timerRef.current) *)
clearTimer(a) ==
  IF a.timerRef # 0
  THEN [a EXCEPT !.intervals = {i \in @ : i.id # a.timerRef}]
  ELSE a

(* The callback of the countdown interval iv, whose closure holds the       *)
(* isScoreMode of the render that created it.                               *)
tickLate(a, iv) ==
  IF a.practice.timer <= 0
  THEN LET a1 == [clearTimer(a) EXCEPT !.feedbackStatus = "timeout"]
           a2 == IF iv.isScoreMode /\ ~a.practice.hasMadeMistake
                 THEN [a1 EXCEPT !.currentScore.wrong = @ + 1]
                 ELSE a1
       IN [a2 EXCEPT !.practice.timer = 0, !.practice.revealed = TRUE,
                     !.ticks = @ + 1]
  ELSE [a EXCEPT !.practice.timer = @ - 1, !.ticks = @ + 1]

tick(a, iv) ==
  IF a.practice.timer <= 1
  THEN LET a1 == [clearTimer(a) EXCEPT !.feedbackStatus = "timeout"]
           a2 == IF iv.isScoreMode /\ ~a.practice.hasMadeMistake
                 THEN [a1 EXCEPT !.currentScore.wrong = @ + 1]
                 ELSE a1
       IN [a2 EXCEPT !.practice.timer = 0, !.practice.revealed = TRUE,
                     !.ticks = @ + 1]
  ELSE [a EXCEPT !.practice.timer = @ - 1, !.ticks = @ + 1]

startPracticeRound(a, randomChord) ==
  LET a1 == [a EXCEPT !.practice.targetChord = randomChord,
                      !.practice.revealed = FALSE,
                      !.practice.timer = a.practice.timerSetting,
                      !.practice.hasMadeMistake = FALSE,
                      !.feedbackStatus = "idle",
                      !.currentChord = NoChord]
      a2 == clearTimer(engineCall(a1, "playNotes", randomChord))
      id == a.rounds + 1
  IN [a2 EXCEPT !.intervals = @ \cup {[id |-> id,
                                       isScoreMode |-> a.isScoreMode]},
                !.timerRef = id,
                !.rounds = id,
                !.base = a.currentScore.correct + a.currentScore.wrong,
                !.ticks = 0,
                !.effectRuns = 0]

togglePracticeMode(a, randomChord) ==
  IF a.practice.isActive
  THEN LET totalAttempts == a.currentScore.correct + a.currentScore.wrong
           a1 == IF totalAttempts > 0 THEN [a EXCEPT !.history = @ + 1] ELSE a
           a2 == [a1 EXCEPT !.practice.isActive = FALSE,
                            !.practice.targetChord = NoChord,
                            !.practice.revealed = FALSE,
                            !.practice.hasMadeMistake = FALSE]
           a3 == [clearTimer(a2) EXCEPT !.currentChord = NoChord,
                                        !.feedbackStatus = "idle"]
       IN engineCall(a3, "stopChord", NoChord)
  ELSE startPracticeRound(
         [a EXCEPT !.currentScore = [correct |-> 0, wrong |-> 0],
                   !.practice.isActive = TRUE,
                   !.practice.hasMadeMistake = FALSE],
         randomChord)

revealAnswerKeep(a) ==
  LET a1 == [a EXCEPT !.practice.revealed = TRUE,
                      !.practice.timer = 0]
  IN IF a.practice.targetChord # NoChord
     THEN engineCall([a1 EXCEPT !.currentChord = a.practice.targetChord],
                     "playNotes", a.practice.targetChord)
     ELSE a1

revealAnswer(a) ==
  LET a1 == [clearTimer(a) EXCEPT !.practice.revealed = TRUE,
                                  !.practice.timer = 0]
  IN IF a.practice.targetChord # NoChord
     THEN engineCall([a1 EXCEPT !.currentChord = a.practice.targetChord],
                     "playNotes", a.practice.targetChord)
     ELSE a1

handlePracticeGuessEvery(a, chord) ==
  IF a.practice.revealed THEN a
  ELSE IF chord = a.practice.targetChord
  THEN LET a1 == [a EXCEPT !.feedbackStatus = "correct"]
           a2 == IF a.isScoreMode /\ ~a.practice.hasMadeMistake
                 THEN [a1 EXCEPT !.currentScore.correct = @ + 1]
                 ELSE a1
       IN revealAnswer(a2)
  ELSE LET a1 == [a EXCEPT !.feedbackStatus = "wrong"]
           a2 == IF a.isScoreMode
                 THEN [a1 EXCEPT !.currentScore.wrong = @ + 1,
                                 !.practice.hasMadeMistake = TRUE]
                 ELSE a1
       IN engineCall([a2 EXCEPT !.feedbackTimer = TRUE], "playNotes", chord)

handlePracticeGuess(a, chord) ==
  IF a.practice.revealed THEN a
  ELSE IF chord = a.practice.targetChord
  THEN LET a1 == [a EXCEPT !.feedbackStatus = "correct"]
           a2 == IF a.isScoreMode /\ ~a.practice.hasMadeMistake
                 THEN [a1 EXCEPT !.currentScore.correct = @ + 1]
                 ELSE a1
       IN revealAnswer(a2)
  ELSE LET a1 == [a EXCEPT !.feedbackStatus = "wrong"]
           a2 == IF a.isScoreMode /\ ~a.practice.hasMadeMistake
                 THEN [a1 EXCEPT !.currentScore.wrong = @ + 1,
                                 !.practice.hasMadeMistake = TRUE]
                 ELSE a1
       IN engineCall([a2 EXCEPT !.feedbackTimer = TRUE], "playNotes", chord)

handleChordPress(a, chord) ==
  IF a.practice.isActive /\ ~a.practice.revealed
  THEN handlePracticeGuess(a, chord)
  ELSE engineCall([a EXCEPT !.currentChord = chord], "startChord", chord)

handleReplay(a) ==
  IF a.practice.targetChord # NoChord
  THEN engineCall(a, "playNotes", a.practice.targetChord)
  ELSE a

(* The effect that shows and plays the answer of a round that timed out.    *)
timeoutEffect(a) ==
  IF /\ a.practice.isActive
     /\ a.practice.revealed
     /\ a.practice.targetChord # NoChord
     /\ a.feedbackStatus = "timeout"
     /\ a.currentChord = NoChord
  THEN engineCall([a EXCEPT !.currentChord = a.practice.targetChord,
                            !.effectRuns = @ + 1],
                  "playNotes", a.practice.targetChord)
  ELSE a

(* What the component holds, without the record of the last handler run.    *)
AppState(a) ==
  <<a.practice, a.isScoreMode, a.currentScore, a.feedbackStatus,
    a.currentChord, a.history, a.timerRef, a.intervals>>

(* One handler of the component: it starts from the committed state, and    *)
(* the effects run on what it commits.                                      *)
Handle(op, arg, a) ==
  probe' = [timeoutEffect(a) EXCEPT !.op = op, !.arg = arg,
                                    !.pre = AppState(probe)]

Called == [probe EXCEPT !.audio = <<>>]

PracticeInit ==
  /\ engine = "audioEngine"
  /\ Idle
  /\ probe = App0

SetIsScoreMode ==
  /\ probe.fn = "practice"
  /\ ~probe.practice.isActive
  /\ Handle("setIsScoreMode", NoChord,
            [Called EXCEPT !.isScoreMode = ~probe.isScoreMode])
  /\ UNCHANGED engineVars

SetTimerSetting ==
  /\ probe.fn = "practice"
  /\ ~probe.practice.isActive
  /\ \E value \in SliderValues :
       Handle("setTimerSetting", NoChord,
              [Called EXCEPT !.practice.timerSetting = value])
  /\ UNCHANGED engineVars

TogglePracticeMode ==
  /\ probe.fn = "practice"
  /\ probe.practice.isActive \/ probe.rounds < MaxRounds
  /\ \E randomChord \in ALL_CHORDS_FLAT :
       Handle("togglePracticeMode", NoChord,
              togglePracticeMode(Called, randomChord))
  /\ UNCHANGED engineVars

NextRound ==
  /\ probe.fn = "practice"
  /\ probe.practice.isActive
  /\ probe.practice.revealed
  /\ probe.rounds < MaxRounds
  /\ \E randomChord \in ALL_CHORDS_FLAT :
       Handle("startPracticeRound", NoChord,
              startPracticeRound(Called, randomChord))
  /\ UNCHANGED engineVars

HandleChordPress ==
  /\ probe.fn = "practice"
  /\ ~(probe.practice.isActive /\ probe.practice.revealed)
  /\ \E chord \in ALL_CHORDS_FLAT :
       Handle("handleChordPress", chord, handleChordPress(Called, chord))
  /\ UNCHANGED engineVars

HandlePracticeGuess ==
  /\ probe.fn = "practice"
  /\ probe.practice.isActive
  /\ probe.practice.revealed
  /\ \E chord \in ALL_CHORDS_FLAT :
       Handle("handlePracticeGuess", chord,
              handlePracticeGuess(Called, chord))
  /\ UNCHANGED engineVars

HandleReplay ==
  /\ probe.fn = "practice"
  /\ probe.practice.isActive
  /\ ~probe.practice.revealed
  /\ Handle("handleReplay", NoChord, handleReplay(Called))
  /\ UNCHANGED engineVars

IntervalTick ==
  /\ probe.fn = "practice"
  /\ \E iv \in probe.intervals :
       Handle("tick", NoChord, tick(Called, iv))
  /\ UNCHANGED engineVars

FeedbackIdle ==
  /\ probe.fn = "practice"
  /\ probe.feedbackTimer
  /\ \E more \in BOOLEAN :
       Handle("feedbackIdle", NoChord,
              [Called EXCEPT !.feedbackStatus = "idle",
                             !.feedbackTimer = more])
  /\ UNCHANGED engineVars

PracticeNext ==
  \/ SetIsScoreMode
  \/ SetTimerSetting
  \/ TogglePracticeMode
  \/ NextRound
  \/ HandleChordPress
  \/ HandlePracticeGuess
  \/ HandleReplay
  \/ IntervalTick
  \/ FeedbackIdle

PracticeSpec == PracticeInit /\ [][PracticeNext]_vars

----------------------------------------------------------------------------
(* Reading the history of the most recent handler run. *)
Key(n) == <<n.call, n.k>>
Keys(seq) == [i \in 1..Len(seq) |-> Key(seq[i])]
EvSel(kind) == SelectSeq(last.events, LAMBDA e : e.e = kind)
Released(n) == {j \in 1..Len(last.events) :
                  last.events[j].e = "release" /\ Key(last.events[j]) = Key(n)}
StartRun == last.op \in {"startChord", "playNotes"}
StopRun == last.op \in {"stopChord", "timer"}

(* C1. Single active chord: when startChord(B) returns, the registry holds  *)
(* exactly the entries that call pushed, none of an earlier call, and the   *)
(* release handle of every entry registered before the call (the voices of  *)
(* A when no stopChord came between) has been invoked.                      *)
C1_SingleActiveChord ==
  StartRun =>
    /\ \A i \in 1..Len(activeNodes) : activeNodes[i].call = last.call
    /\ Keys(activeNodes) = Keys(EvSel("register"))
    /\ Len(activeNodes) = Len(relCount[last.call])
    /\ \A i \in 1..Len(last.pre) :
         /\ Released(last.pre[i]) # {}
         /\ relCount[last.pre[i].call][last.pre[i].k] >= 1

C1_Witness ==
  /\ last.op = "startChord"
  /\ Len(last.pre) >= 2
  /\ last.pre[1].call = last.call - 1
  /\ Len(activeNodes) >= 2

(* C2. stopChord on a non-empty registry invokes the release handle of      *)
(* every registered entry exactly once, all with the one clock value read   *)
(* at the start of the call, and returns with the registry empty.           *)
C2_StopReleasesAll ==
  (StopRun /\ last.pre # <<>>) =>
    /\ activeNodes = <<>>
    /\ \A i \in 1..Len(last.pre) : Cardinality(Released(last.pre[i])) = 1
    /\ Len(EvSel("release")) = Len(last.pre)
    /\ \A j \in 1..Len(last.events) :
         last.events[j].e = "release" => last.events[j].t = last.now
    /\ \A i \in 1..Len(last.pre) :
         relCount[last.pre[i].call][last.pre[i].k] = 1

C2_Witness ==
  /\ last.op = "stopChord"
  /\ Len(last.pre) >= 2
  /\ last.now > 0
  /\ activeNodes = <<>>

(* C3. stopChord is idempotent: a stopChord run that finds the registry     *)
(* empty, or that follows another stopChord run with no start in between,   *)
(* invokes no release handle, schedules nothing and leaves the registry     *)
(* empty.                                                                   *)
C3_StopIdempotent ==
  [][((activeNodes = <<>> \/ StopRun)
        /\ (StopChord \/ \E i \in 1..Len(timers) : TimerFire(i)))
      => (last'.events = <<>> /\ activeNodes' = <<>>
            /\ UNCHANGED <<relCount, ctx, masterGain, ctxState, calls>>)]_vars

C3_Witness ==
  /\ last.op = "stopChord"
  /\ last.pre = <<>>
  /\ last.events = <<>>
  /\ \E c \in 1..Len(relCount) : \E k \in 1..Len(relCount[c]) :
       relCount[c][k] = 1

(* C4. Voice count: startChord leaves one registry entry per note, for      *)
(* every instrument and timbre; with no notes it creates nothing and leaves *)
(* the registry empty, the earlier chord released.                          *)
C4_VoiceCount ==
  StartRun =>
    /\ Len(activeNodes) = Len(last.notes)
    /\ last.notes = <<>> =>
         /\ EvSel("create") = <<>>
         /\ activeNodes = <<>>
         /\ \A i \in 1..Len(last.pre) : Released(last.pre[i]) # {}

(* C5. One-shot lifecycle: when the timer set by playNotes has fired, the   *)
(* registry is empty and the release handle of every entry that playNotes   *)
(* call pushed has been invoked, with no explicit stopChord needed.         *)
C5_OneShot ==
  /\ last.op = "timer" => activeNodes = <<>>
  /\ \A i \in 1..Len(timers) :
       timers[i].fires > 0 =>
         \A k \in 1..Len(relCount[timers[i].call]) :
           relCount[timers[i].call][k] >= 1

C5_Witness ==
  /\ last.op = "timer"
  /\ Len(last.pre) >= 2
  /\ \A i \in 1..Len(last.pre) : last.pre[i].call = last.call
  /\ \A i \in 1..Len(last.pre) : Released(last.pre[i]) # {}
  /\ activeNodes = <<>>

(* C6. Stale timer: the timer of a playNotes call stops whatever is         *)
(* registered when it fires; entries pushed by a later call are released by *)
(* it, at the time it fires.                                                *)
C6_StaleTimer ==
  last.op = "timer" =>
    \A i \in 1..Len(last.pre) :
      last.pre[i].call # last.call =>
        \E j \in Released(last.pre[i]) : last.events[j].t = last.now

C6_Witness ==
  /\ last.op = "timer"
  /\ last.pre # <<>>
  /\ \A i \in 1..Len(last.pre) :
       /\ last.pre[i].call > last.call
       /\ Released(last.pre[i]) # {}
  /\ activeNodes = <<>>

(* C7. The deferred stop of playNotes is never cancelled: each playNotes    *)
(* call sets one timer, due AutoStopMs later; no startChord, stopChord or   *)
(* playNotes in between removes or changes it; it runs stopChord once, not  *)
(* before it is due, and does so eventually; a run that finds the registry  *)
(* empty does nothing.                                                      *)
HasTimer(c) == \E i \in 1..Len(timers) : timers[i].call = c
Fired(c) == \E i \in 1..Len(timers) :
              timers[i].call = c /\ timers[i].fires = 1

C7_TimerNeverCancelled ==
  /\ [](\A i \in 1..Len(timers) :
          /\ timers[i].fires <= 1
          /\ timers[i].due = timers[i].set + AutoStopMs)
  /\ [][/\ Len(timers') = Len(timers)
                + (IF calls' = calls + 1 /\ last'.op = "playNotes"
                   THEN 1 ELSE 0)
        /\ (calls' = calls + 1 /\ last'.op = "playNotes") =>
             /\ timers'[Len(timers')].call = calls'
             /\ timers'[Len(timers')].set = wall
             /\ timers'[Len(timers')].fires = 0
        /\ \A i \in 1..Len(timers) :
             /\ timers'[i].call = timers[i].call
             /\ timers'[i].due = timers[i].due
             /\ timers'[i].fires >= timers[i].fires
             /\ timers'[i].fires > timers[i].fires =>
                  /\ wall >= timers[i].due
                  /\ last'.op = "timer"
                  /\ last'.call = timers[i].call]_vars
  /\ \A c \in 1..MaxCalls : HasTimer(c) ~> Fired(c)
  /\ []((last.op = "timer" /\ last.pre = <<>>) =>
          (last.events = <<>> /\ activeNodes = <<>>))

C7_Witness ==
  /\ Len(timers) = 2
  /\ \A i \in 1..2 : timers[i].fires = 1
  /\ last.op = "timer"
  /\ last.call = 2
  /\ last.pre = <<>>
  /\ relCount[1] # <<>>
  /\ relCount[2] # <<>>

(* C8. Cross-call ordering: in one startChord run every release of the      *)
(* earlier entries, and the clearing of the registry, comes before the      *)
(* first creation or registration of the new chord.                         *)
Draining == {"release", "cancelScheduledValues", "setValueAtTime",
             "rampToSilence", "oscStop", "clear"}
Building == {"create", "connectMaster", "register"}

C8_DrainBeforeBuild ==
  StartRun =>
    /\ \A i, j \in 1..Len(last.events) :
         (last.events[i].e \in Draining /\ last.events[j].e \in Building)
           => i < j
    /\ \A i \in 1..Len(last.pre) : Released(last.pre[i]) # {}
    /\ last.pre # <<>> => Len(EvSel("clear")) = 1

C8_Witness ==
  /\ StartRun
  /\ Len(last.pre) >= 2
  /\ Len(EvSel("register")) >= 2
  /\ Len(EvSel("release")) >= 2

(* C9. Ordering: startChord registers the voices in the order of the input  *)
(* notes, and every run of stopChord invokes the release handles in the     *)
(* order of registration.                                                   *)
NoteEntries == SelectSeq(activeNodes, LAMBDA n : n.kind = "note")

C9_Order ==
  /\ StartRun =>
       /\ [i \in 1..Len(NoteEntries) |-> NoteEntries[i].note] = last.notes
       /\ \A i \in 1..Len(NoteEntries) : NoteEntries[i].idx = i - 1
       /\ \A i, j \in 1..Len(activeNodes) :
            i < j => /\ activeNodes[i].idx <= activeNodes[j].idx
                     /\ activeNodes[i].k < activeNodes[j].k
  /\ Keys(EvSel("release")) = Keys(last.pre)

C9_Witness ==
  /\ last.op = "stopChord"
  /\ Len(last.pre) >= 2
  /\ last.pre[1].note # last.pre[Len(last.pre)].note
  /\ Keys(EvSel("release")) = Keys(last.pre)

(* C10. Staggering: all start times of one startChord run are taken from    *)
(* one clock reading now; for Guitar and Violin the note at index i starts  *)
(* at now + i * (the stagger constant), for Piano every note starts at now. *)
StartOf(i) ==
  IF last.inst = "Piano" THEN last.now
  ELSE IF engine = "part_001" THEN last.now + i * StaggerLegacyMs
  ELSE last.now + i * StaggerReverbMs

C10_Stagger ==
  StartRun =>
    /\ \A i \in 1..Len(activeNodes) :
         activeNodes[i].startTime = StartOf(activeNodes[i].idx)
    /\ \A j \in 1..Len(last.events) :
         last.events[j].e = "create" =>
           last.events[j].t = StartOf(last.events[j].k)
    /\ Len(EvSel("create")) = Len(last.notes)

C10_Witness ==
  /\ StartRun
  /\ last.inst \in {"Guitar", "Violin"}
  /\ last.now > 0
  /\ Len(NoteEntries) >= 2
  /\ NoteEntries[2].startTime > NoteEntries[1].startTime

(* C11. Lazy single initialisation: the body of init that creates the       *)
(* context, the master gain, the reverb chain and the impulse buffer runs   *)
(* in the first startChord/playNotes call and never again, so it has run    *)
(* at most once, and the context and the bus are never replaced or reset.   *)
InitRuns == IF calls > 0 THEN 1 ELSE 0

C11_LazySingleInit ==
  /\ bus.inits = InitRuns
  /\ ctx = (calls > 0)
  /\ masterGain = ctx
  /\ bus = IF ctx THEN newBus(engine, NoBus) ELSE NoBus
  /\ Len(EvSel("init")) = IF StartRun /\ last.call = 1 THEN 1 ELSE 0

C11_Witness ==
  /\ calls >= 2
  /\ StartRun
  /\ last.call = 2
  /\ engine = "audioEngine"
  /\ bus.inits = 1
  /\ bus.impulse.made = 1

(* C12. stopChord before any startChord/playNotes returns at its guard: it  *)
(* creates no context and no bus and leaves the registry as it was.         *)
C12_StopBeforeInit ==
  (last.op = "stopChord" /\ calls = 0) =>
    /\ ~ctx
    /\ ~masterGain
    /\ ctxState = "none"
    /\ bus = NoBus
    /\ activeNodes = <<>>
    /\ last.pre = <<>>
    /\ last.events = <<>>
    /\ relCount = <<>>

C12_Witness ==
  /\ last.op = "stopChord"
  /\ calls = 0
  /\ wall > 0

(* C13. Bounded voice lifetime: a run that drains the registry at clock     *)
(* time t (stopChord, the drain of startChord, the playNotes timer)         *)
(* schedules, for every entry it drains, a stop of each oscillator started  *)
(* for that entry, LFOs included, at a time no later than t + 0.35 s.       *)
StopsOf(n) == {j \in 1..Len(last.events) :
                 /\ last.events[j].e = "oscStop"
                 /\ Key(last.events[j]) = Key(n)
                 /\ last.events[j].t <= last.now + StopDelayMs}

C13_BoundedLifetime ==
  \A i \in 1..Len(last.pre) :
    Cardinality(StopsOf(last.pre[i])) = Len(last.pre[i].oscs)

(* C14 as stated. An entry is dropped from the registry only once its       *)
(* oscillators have stopped: when a run drops an entry at clock time t,     *)
(* every stop scheduled for its oscillators lies at or before t.            *)
Registered(n) == \E i \in 1..Len(activeNodes) : Key(activeNodes[i]) = Key(n)
AllStops(n) == {j \in 1..Len(last.events) :
                  last.events[j].e = "oscStop" /\ Key(last.events[j]) = Key(n)}
ClearAt == {j \in 1..Len(last.events) : last.events[j].e = "clear"}

C14_DropAfterStop ==
  \A i \in 1..Len(last.pre) :
    ~Registered(last.pre[i]) =>
      \A j \in AllStops(last.pre[i]) : last.events[j].t <= last.now

(* C14, amended. An entry stays in the registry from its push until the     *)
(* first run that drains the registry; that run invokes its release and     *)
(* then drops it, at clock time t, before the stop the release scheduled    *)
(* (t + 0.35 s): created, registered, releasing, dropped, oscillators stop. *)
C14_Lifecycle ==
  /\ \A c \in 1..Len(relCount) : \A k \in 1..Len(relCount[c]) :
       relCount[c][k] = IF Registered([call |-> c, k |-> k]) THEN 0 ELSE 1
  /\ \A i \in 1..Len(last.pre) :
       /\ ~Registered(last.pre[i])
       /\ Cardinality(ClearAt) = 1
       /\ \A r \in Released(last.pre[i]) : \A d \in ClearAt :
            r < d /\ last.events[r].t = last.events[d].t
       /\ \A j \in AllStops(last.pre[i]) : \A d \in ClearAt :
            j < d /\ last.events[j].t > last.events[d].t
  /\ \A i \in 1..Len(activeNodes) :
       StartRun /\ activeNodes[i].call = last.call

C14_Witness ==
  /\ StopRun
  /\ Len(last.pre) >= 2
  /\ activeNodes = <<>>
  /\ \E j \in AllStops(last.pre[Len(last.pre)]) :
       last.events[j].t = last.now + StopDelayMs
  /\ last.now > 0

(* C15. Release is the sole path to disposal: no run invokes the stop       *)
(* handle of a registry entry, and every oscillator stop a run schedules is *)
(* scheduled from inside the release of its entry, for a time later than    *)
(* the time the release was invoked at.                                     *)
InRelease(r, j) ==
  /\ r < j
  /\ last.events[r].e = "release"
  /\ Key(last.events[r]) = Key(last.events[j])
  /\ \A m \in (r + 1)..j : last.events[m].e \notin {"release", "stop", "clear"}

C15_ReleaseOnly ==
  /\ EvSel("stop") = <<>>
  /\ \A j \in 1..Len(last.events) :
       last.events[j].e = "oscStop" =>
         \E r \in 1..Len(last.events) :
           InRelease(r, j) /\ last.events[j].t > last.events[r].t

C15_Witness ==
  /\ last.op = "timer"
  /\ Len(last.pre) >= 1
  /\ Len(EvSel("oscStop")) >= 2
  /\ EvSel("stop") = <<>>

(* C20. Release handle ordering: the release of a note's entry at time t    *)
(* cancels the gain automation from t, pins the gain at t, ramps it to      *)
(* near-silence by t + 0.3 s and then schedules the oscillator stop at      *)
(* t + 0.35 s, in this order, so the hard stop comes strictly after the end *)
(* of the fade-out.                                                         *)
ReleaseSteps(n, r) ==
  LET t == last.events[r].t
      e == last.events
  IN /\ t = last.now
     /\ r + 3 + Len(n.oscs) <= Len(e)
     /\ e[r + 1] = Ev("cancelScheduledValues", n.call, n.k, t)
     /\ e[r + 2] = Ev("setValueAtTime", n.call, n.k, t)
     /\ e[r + 3] = Ev("rampToSilence", n.call, n.k, t + 300)
     /\ \A m \in 1..Len(n.oscs) :
          /\ e[r + 3 + m] = Ev("oscStop", n.call, n.k, t + 350)
          /\ e[r + 3 + m].t > e[r + 3].t

C20_ReleaseOrder ==
  \A i \in 1..Len(last.pre) :
    last.pre[i].kind = "note" =>
      /\ Cardinality(Released(last.pre[i])) = 1
      /\ \A r \in Released(last.pre[i]) : ReleaseSteps(last.pre[i], r)

C20_Witness ==
  /\ engine = "part_001"
  /\ last.op = "stopChord"
  /\ last.now > 0
  /\ Len(last.pre) >= 1
  /\ last.pre[1].kind = "note"
  /\ Len(EvSel("rampToSilence")) >= 1

(* C17. Mix bus frame condition: once the bus exists, no step (startChord,  *)
(* stopChord, playNotes, a timer firing) changes the master gain value, the *)
(* reverb send gain value, the impulse buffer or the bus routing; a run     *)
(* only adds voices, each connected to the master gain.                     *)
VoicesWired(run) ==
  \A j \in 1..Len(run.events) :
    run.events[j].e = "create" =>
      \E m \in 1..Len(run.events) :
        run.events[m] = [run.events[j] EXCEPT !.e = "connectMaster"]

C17_BusFrame ==
  [][ctx => /\ bus'.masterGainValue = bus.masterGainValue
            /\ bus'.reverbGainValue = bus.reverbGainValue
            /\ bus'.impulse = bus.impulse
            /\ bus'.routes = bus.routes
            /\ VoicesWired(last')]_vars

C17_Witness ==
  /\ engine = "audioEngine"
  /\ calls >= 2
  /\ last.op = "timer"
  /\ Len(last.pre) >= 1
  /\ bus.masterGainValue = 300
  /\ bus.reverbGainValue = 350
  /\ Cardinality(bus.routes) = 4

(* C16. Timbre is ignored for Guitar and Violin: for the same note, index   *)
(* and clock time, the voices built for different timbre values have the    *)
(* same graph, the same envelope and the same start time.                   *)
C16_TimbreIgnored ==
  (probe.fn = "voiceGraph" /\ probe.instrument \in {"Guitar", "Violin"}) =>
    \A i, j \in 1..Len(probe.graphs) : probe.graphs[i] = probe.graphs[j]

C16_Witness ==
  /\ probe.fn = "voiceGraph"
  /\ probe.instrument = "Violin"
  /\ probe.index > 0
  /\ probe.now > 0
  /\ Len(probe.graphs) = Len(ProbeTimbres)
  /\ probe.graphs[1].startTime > probe.now

(* C18. Recipe dispatch in services/audioEngine.ts: the oscillators of a    *)
(* voice are those of the one recipe (instrument, timbre) selects:          *)
(* Grand 2 triangle + 1 sine, Electric 1 sine + 1 triangle + 1 tremolo LFO, *)
(* HonkyTonk 2 sawtooth, Guitar 1 sawtooth, Violin 1 sawtooth + 1 vibrato   *)
(* LFO; a Piano timbre other than Electric or HonkyTonk gets Grand.         *)
Audio(oscs, type) ==
  Cardinality({i \in 1..Len(oscs) :
                 oscs[i].role = "audio" /\ oscs[i].type = type})
Lfo(oscs, role) ==
  Cardinality({i \in 1..Len(oscs) : oscs[i].role = role})

TableLayout(oscs, instrument, timbre) ==
  CASE instrument = "Guitar" ->
         Len(oscs) = 1 /\ Audio(oscs, "sawtooth") = 1
    [] instrument = "Violin" ->
         Len(oscs) = 2 /\ Audio(oscs, "sawtooth") = 1
                       /\ Lfo(oscs, "vibrato") = 1
    [] instrument = "Piano" /\ timbre = "Electric" ->
         Len(oscs) = 3 /\ Audio(oscs, "sine") = 1
                       /\ Audio(oscs, "triangle") = 1
                       /\ Lfo(oscs, "tremolo") = 1
    [] instrument = "Piano" /\ timbre = "HonkyTonk" ->
         Len(oscs) = 2 /\ Audio(oscs, "sawtooth") = 2
    [] OTHER ->
         Len(oscs) = 3 /\ Audio(oscs, "triangle") = 2
                       /\ Audio(oscs, "sine") = 1

C18_RecipeDispatch ==
  (probe.fn = "voiceGraph" /\ engine = "audioEngine") =>
    \A i \in 1..Len(probe.graphs) :
      TableLayout(probe.graphs[i].oscs, probe.instrument, ProbeTimbres[i])

C18_Witness ==
  /\ probe.fn = "voiceGraph"
  /\ engine = "audioEngine"
  /\ probe.instrument = "Piano"
  /\ Len(probe.graphs) = Len(ProbeTimbres)
  /\ ProbeTimbres[4] \notin Timbres
  /\ Audio(probe.graphs[4].oscs, "triangle") = 2

(* Comparing frequencies m * 2^e. *)
Lowest(a, b) == IF a.e < b.e THEN a.e ELSE b.e
Scaled(a, lo) == a.m * 2 ^ (a.e - lo)
FreqLess(a, b) == Scaled(a, Lowest(a, b)) < Scaled(b, Lowest(a, b))
FreqGap(a, b) ==
  LET d == Scaled(a, Lowest(a, b)) - Scaled(b, Lowest(a, b))
  IN IF d < 0 THEN -d ELSE d
Twice(a) == [a EXCEPT !.m = 2 * @]
Hz(h) == [m |-> h * 10000, e |-> 0]

Indexes(seq) == {seq[i] : i \in 1..Len(seq)}
StartedOscs(v) == {v.started[i].osc : i \in 1..Len(v.started)}

C21_StopCoverage ==
  (probe.fn = "voiceGraph" /\ engine = "audioEngine") =>
    \A i \in 1..Len(probe.graphs) :
      LET v == probe.graphs[i]
      IN /\ StartedOscs(v) = 1..Len(v.oscs)
         /\ Indexes(v.listed) = StartedOscs(v)
         /\ Len(v.listed) = Len(v.oscs)
         /\ Len(probe.stops[i]) = Len(v.started)
         /\ \A j \in 1..Len(probe.stops[i]) :
              probe.stops[i][j].t = probe.now + TickMs

C21_Witness ==
  /\ probe.fn = "voiceGraph"
  /\ engine = "audioEngine"
  /\ probe.instrument = "Violin"
  /\ Len(probe.graphs) = Len(ProbeTimbres)
  /\ Len(probe.stops[1]) = 2
  /\ \E j \in 1..2 : probe.graphs[1].oscs[j].role = "vibrato"

(* C22. Resume on every start: each startChord/playNotes call, the first    *)
(* and the later ones, requests resume exactly when the context is          *)
(* suspended at that call, before it builds any voice; a stopChord run (by  *)
(* call or by timer) never requests resume.                                 *)
ResumesIn(run) == {j \in 1..Len(run.events) : run.events[j].e = "resume"}
BuildsIn(run) == {j \in 1..Len(run.events) : run.events[j].e \in Building}

C22_ResumeOnStart ==
  [][IF calls' # calls
     THEN /\ Cardinality(ResumesIn(last')) =
               IF ctxState' = "suspended" THEN 1 ELSE 0
          /\ ctxState' = "suspended" => resumePending'
          /\ \A r \in ResumesIn(last') : \A b \in BuildsIn(last') : r < b
     ELSE last' # last =>
            /\ ResumesIn(last') = {}
            /\ resumePending' = resumePending
            /\ ctxState' = ctxState]_vars

C22_Witness ==
  /\ StartRun
  /\ last.call = 2
  /\ Len(last.notes) >= 1
  /\ Len(EvSel("resume")) = 1
  /\ Len(EvSel("init")) = 0

(* C23. Envelope anchoring: for every recipe all oscillators of a voice are *)
(* started at the voice's startTime, the first event on the voice gain is   *)
(* value 0 at exactly startTime, and each later breakpoint lies strictly    *)
(* after the one before it; the times hang on startTime = now + stagger,    *)
(* not on the time of the call.                                             *)
Anchored(v, instrument, index, now) ==
  /\ v.startTime >= now
  /\ (instrument # "Piano" /\ index > 0) => v.startTime > now
  /\ \A i \in 1..Len(v.started) : v.started[i].at = v.startTime
  /\ Len(v.env) >= 2
  /\ v.env[1] = [op |-> "set", value |-> 0, at |-> v.startTime]
  /\ \A i \in 1..(Len(v.env) - 1) : v.env[i + 1].at > v.env[i].at

C23_EnvelopeAnchor ==
  probe.fn = "voiceGraph" =>
    \A i \in 1..Len(probe.graphs) :
      Anchored(probe.graphs[i], probe.instrument, probe.index, probe.now)

C23_Witness ==
  /\ probe.fn = "voiceGraph"
  /\ engine = "audioEngine"
  /\ probe.instrument = "Guitar"
  /\ probe.index > 0
  /\ Len(probe.graphs) >= 1
  /\ probe.graphs[1].env[1].at = probe.now + probe.index * 40
  /\ Len(probe.graphs[1].env) = 3

(* C24. Release at most once: whatever the calls and timer firings, the     *)
(* release handle of a registry entry has been invoked at most once; an     *)
(* entry that was released is no longer registered, and no entry is         *)
(* registered twice.                                                        *)
C24_ReleaseOnce ==
  /\ \A c \in 1..Len(relCount) : \A k \in 1..Len(relCount[c]) :
       /\ relCount[c][k] <= 1
       /\ relCount[c][k] = 1 => ~Registered([call |-> c, k |-> k])
  /\ \A i, j \in 1..Len(activeNodes) :
       Key(activeNodes[i]) = Key(activeNodes[j]) => i = j
  /\ \A i \in 1..Len(last.pre) : Cardinality(Released(last.pre[i])) <= 1

C24_Witness ==
  /\ calls = 2
  /\ last.op = "timer"
  /\ last.pre = <<>>
  /\ Len(relCount[1]) >= 1
  /\ Len(relCount[2]) >= 1
  /\ relCount[1][1] = 1
  /\ relCount[2][1] = 1

(* C25. Registry homogeneity: in every state between handler runs the      *)
(* registry is empty or holds exactly the entries the most recent           *)
(* startChord/playNotes call pushed, in the order of the pushes; it never   *)
(* holds entries of two calls, whatever timers have fired in between.       *)
C25_Homogeneous ==
  \/ activeNodes = <<>>
  \/ /\ calls >= 1
     /\ Keys(activeNodes) =
          [k \in 1..Len(relCount[calls]) |-> <<calls, k>>]

C25_Witness ==
  /\ calls = 2
  /\ Len(activeNodes) >= 2
  /\ \E i \in 1..Len(timers) : timers[i].fires > 0 /\ timers[i].call = 1
  /\ Len(relCount[1]) >= 1
  /\ \A i \in 1..Len(activeNodes) : activeNodes[i].call = 2

(* C26 as stated. Stop never precedes start: for a voice at any index of a *)
(* Guitar or Violin chord, also when the chord is stopped right after it    *)
(* was started, the stop release schedules (release time + 0.35 s) is not   *)
(* earlier than the voice's start time (now + index * stagger).             *)
Staggered == probe.fn = "stagger" /\ probe.done
               /\ probe.instrument \in {"Guitar", "Violin"}

C26_StopAfterStart ==
  Staggered => \A j \in 1..Len(probe.stops) : probe.stops[j] >= probe.start

(* C26, amended. The stop is not earlier than the start for the notes at    *)
(* index 0..11 in part_001 (stagger 0.03 s) and 0..8 in audioEngine.ts      *)
(* (0.04 s), and for every index once the chord is stopped at least         *)
(* index * stagger - 0.35 s after it was started; for a chord stopped at    *)
(* once, the stop of a note at a higher index precedes its start.           *)
LastOnTime == IF engine = "part_001" THEN 11 ELSE 8

C26_StopAfterStartBounded ==
  Staggered =>
    /\ Len(probe.stops) >= 1
    /\ probe.index <= LastOnTime =>
         \A j \in 1..Len(probe.stops) : probe.stops[j] >= probe.start
    /\ (probe.index > LastOnTime /\ probe.delay = 0) =>
         \A j \in 1..Len(probe.stops) : probe.stops[j] < probe.start
    /\ probe.delay >= probe.start - probe.now - 350 =>
         \A j \in 1..Len(probe.stops) : probe.stops[j] >= probe.start

C26_Witness ==
  /\ Staggered
  /\ engine = "audioEngine"
  /\ probe.index = 8
  /\ probe.delay = 0
  /\ probe.now > 0
  /\ probe.start = probe.now + 320
  /\ probe.stops = <<probe.now + 350>>

(* C27. Initialisation consistency: the context and the master gain are    *)
(* both null or both set in every state, and both are set once a            *)
(* startChord/playNotes call has run init; the guard of startChord is then  *)
(* never taken, and the call builds and registers a voice for each of its   *)
(* notes.                                                                   *)
C27_InitConsistent ==
  /\ ctx <=> masterGain
  /\ StartRun =>
       /\ ctx /\ masterGain
       /\ Len(EvSel("create")) = Len(last.notes)
       /\ Len(EvSel("connectMaster")) = Len(last.notes)
       /\ [i \in 1..Len(NoteEntries) |-> NoteEntries[i].note] = last.notes
       /\ Len(last.notes) > 0 => activeNodes # <<>>

C27_Witness ==
  /\ StartRun
  /\ last.call = 2
  /\ Len(last.notes) = 2
  /\ Len(NoteEntries) = 2
  /\ Len(EvSel("init")) = 0
  /\ ctx
  /\ masterGain

(* Reading the practice component: its state before the last handler ran.   *)
Practising == probe.fn = "practice" /\ probe.op # "mount"
PrePractice == probe.pre[1]
PreScoreMode == probe.pre[2]
PreScore == probe.pre[3]
PreIntervals == probe.pre[8]
Attempts(score) == score.correct + score.wrong
PlayOf(chord) == [fn |-> "playNotes", chord |-> chord]

(* C28. Practice scoring counts once per round: since the last              *)
(* startPracticeRound, correct + wrong has grown by at most 1; wrong grows  *)
(* (by 1, in score mode) only on a wrong guess or a timeout of a round      *)
(* without a mistake so far, correct grows (by 1, in score mode) only on a  *)
(* correct guess of a round without a mistake, and a guess made after the   *)
(* answer is revealed changes nothing.                                      *)
C28_ScoreOncePerRound ==
  Practising =>
    /\ Attempts(probe.currentScore) - probe.base \in {0, 1}
    /\ probe.currentScore.wrong > PreScore.wrong =>
         /\ probe.currentScore.wrong = PreScore.wrong + 1
         /\ probe.currentScore.correct = PreScore.correct
         /\ PreScoreMode
         /\ PrePractice.isActive
         /\ ~PrePractice.revealed
         /\ ~PrePractice.hasMadeMistake
         /\ \/ /\ probe.op = "handleChordPress"
               /\ probe.arg # PrePractice.targetChord
               /\ probe.practice.hasMadeMistake
            \/ /\ probe.op = "tick"
               /\ probe.practice.revealed
               /\ probe.feedbackStatus = "timeout"
    /\ probe.currentScore.correct > PreScore.correct =>
         /\ probe.currentScore.correct = PreScore.correct + 1
         /\ probe.currentScore.wrong = PreScore.wrong
         /\ PreScoreMode
         /\ PrePractice.isActive
         /\ ~PrePractice.revealed
         /\ ~PrePractice.hasMadeMistake
         /\ probe.op = "handleChordPress"
         /\ probe.arg = PrePractice.targetChord
    /\ probe.op = "handlePracticeGuess" /\ PrePractice.revealed =>
         /\ AppState(probe) = probe.pre
         /\ probe.audio = <<>>

(* A round in score mode whose first guess was wrong and which then timed   *)
(* out: the timeout is not counted again.                                   *)
C28_Witness ==
  /\ Practising
  /\ probe.isScoreMode
  /\ probe.op = "tick"
  /\ probe.practice.revealed
  /\ PrePractice.hasMadeMistake
  /\ probe.currentScore.wrong = 1
  /\ Attempts(probe.currentScore) - probe.base = 1

(* C29. Single countdown: at most one countdown interval is active, and it  *)
(* is the one timerRef names; startPracticeRound leaves exactly the         *)
(* interval it created; once the answer is revealed or practice is stopped  *)
(* no interval is active, so that every tick that runs finds an active,     *)
(* unrevealed round.                                                        *)
C29_SingleCountdown ==
  Practising =>
    /\ Cardinality(probe.intervals) <= 1
    /\ \A iv \in probe.intervals : iv.id = probe.timerRef
    /\ probe.op \in {"startPracticeRound", "togglePracticeMode"}
         /\ probe.practice.isActive =>
           probe.intervals = {[id |-> probe.rounds,
                               isScoreMode |-> probe.isScoreMode]}
    /\ probe.practice.revealed \/ ~probe.practice.isActive =>
         probe.intervals = {}
    /\ probe.op = "tick" =>
         /\ PrePractice.isActive
         /\ ~PrePractice.revealed
         /\ Cardinality(PreIntervals) = 1

(* The second round of a session is revealed by a correct guess: the        *)
(* interval of neither round is left.                                       *)
C29_Witness ==
  /\ Practising
  /\ probe.rounds = 2
  /\ probe.op = "handleChordPress"
  /\ probe.practice.revealed
  /\ probe.feedbackStatus = "correct"
  /\ probe.timerRef = 2
  /\ probe.intervals = {}

(* C30. Countdown reveal: in an active round with timer setting T the timer *)
(* is T less the ticks so far while the answer is hidden, it is never below *)
(* 0, each tick takes 1 from it, the tick that reveals is the T-th one, and *)
(* it leaves timer = 0, feedback "timeout" and the target chord played once *)
(* via playNotes, by the effect, which runs at most once in a round.        *)
C30_CountdownReveal ==
  Practising /\ probe.practice.isActive =>
    /\ probe.practice.timer \in 0..probe.practice.timerSetting
    /\ probe.effectRuns <= 1
    /\ ~probe.practice.revealed =>
         /\ probe.ticks < probe.practice.timerSetting
         /\ probe.practice.timer = probe.practice.timerSetting - probe.ticks
    /\ probe.op = "tick" =>
         /\ probe.practice.timer = PrePractice.timer - 1
         /\ probe.practice.revealed <=>
              probe.ticks = probe.practice.timerSetting
    /\ probe.op = "tick" /\ probe.practice.revealed =>
         /\ probe.practice.timer = 0
         /\ probe.feedbackStatus = "timeout"
         /\ probe.audio = <<PlayOf(probe.practice.targetChord)>>
         /\ probe.currentChord = probe.practice.targetChord
         /\ probe.effectRuns = 1
    /\ probe.op # "tick" => probe.effectRuns = 0 \/ probe.practice.revealed

(* A round with the longest timer setting of the slider times out: its      *)
(* last tick reveals the answer.                                            *)
C30_Witness ==
  /\ Practising
  /\ probe.practice.isActive
  /\ probe.practice.timerSetting = MaxTimer
  /\ probe.op = "tick"
  /\ probe.practice.revealed
  /\ probe.ticks = MaxTimer
  /\ probe.feedbackStatus = "timeout"
  /\ probe.effectRuns = 1

====
